---- MODULE Spec2Model ----
(***************************************************************************)
(* Model of the NBT decoder of go-nbt: DecodeGzip, Decode, read,           *)
(* read_string, read_compound, read_list (decode source), Compound.store   *)
(* and the typed getters (nbt.go).                                         *)
(*                                                                         *)
(* The input is a finite byte sequence with a cursor `pos` (bytes.Buffer). *)
(* One action is one iteration of the member loop of read_compound, with   *)
(* every call it makes; Go call recursion (read_compound -> read_list ->   *)
(* read_compound) is the stack `frames`.  `beat` flips with every          *)
(* iteration, so that an iteration that changes nothing else is a step.    *)
(*                                                                         *)
(* Numbers: TLC integers are 32 bits wide, so a 64-bit value is the pair   *)
(* of its two big-endian 32-bit halves, each as a signed 32-bit integer;   *)
(* a float is its IEEE bit pattern read the same way.  Every scalar value  *)
(* is therefore a sequence of "limbs": <<v>> for 8/16/32 bits and          *)
(* <<hi, lo>> for 64 bits.  Strings are sequences of bytes.                *)
(***************************************************************************)
EXTENDS Integers, Sequences, FiniteSets, TLC

VARIABLES
    gz,       \* [called, src]: whether DecodeGzip was called, and the bytes of its src
    got,      \* the typed getter called on the decoded tree and its outcome
    doc,      \* environment: the document the input bytes were produced from
    input,    \* the bytes behind src (io.Reader)
    pos,      \* number of bytes of input already consumed
    pc,       \* the function the call is in, or how it ended (see below)
    heap,     \* the Compound objects allocated so far, by address 1..Len(heap)
    frames,   \* the active read_compound calls, innermost last
    beat,     \* parity of the number of iterations of the member loops so far
    ret       \* what Decode returned: [c |-> address or 0 (nil), err |-> ...]

\* pc: "DecodeGzip" | "Decode" | "read_compound" | "returned" | "panicked".
\* Spec and FairSpec begin at the call of Decode, GzipSpec at the call of
\* DecodeGzip; GetSpec adds one getter call behind a successful Decode.

vars == <<gz, got, doc, input, pos, pc, heap, frames, beat, ret>>

\* Bound on the member tokens of a generated document.
MaxTokens == 3

\* Bound on the member tokens of the documents of FairSpec.
MaxShort == 1

(***************************************************************************)
(* Tag catalog (nbt.go const block).                                       *)
(***************************************************************************)
TagEnd == 0
TagByte == 1
TagShort == 2
TagInt == 3
TagLong == 4
TagFloat == 5
TagDouble == 6
TagByteArray == 7
TagString == 8
TagList == 9
TagCompound == 10
TagIntArray == 11

ScalarTags == TagByte..TagDouble

\* Wire size in bytes of a fixed-width kind (the Go type of `value`).
Width(k) ==
    CASE k = TagByte -> 1
      [] k = TagShort -> 2
      [] k = TagInt -> 4
      [] k = TagLong -> 8
      [] k = TagFloat -> 4
      [] k = TagDouble -> 8

\* The dynamic Go type stored by current.store(&value, src) for kind k.
PtrType(k) ==
    CASE k = TagByte -> "*int8"
      [] k = TagShort -> "*int16"
      [] k = TagInt -> "*int32"
      [] k = TagLong -> "*int64"
      [] k = TagFloat -> "*float32"
      [] k = TagDouble -> "*float64"

\* The dynamic Go type of the slice read_list makes for element kind k.
SliceType(k) ==
    CASE k = TagByte -> "[]int8"
      [] k = TagShort -> "[]int16"
      [] k = TagInt -> "[]int32"
      [] k = TagLong -> "[]int64"
      [] k = TagFloat -> "[]float32"
      [] k = TagDouble -> "[]float64"

(***************************************************************************)
(* Big-endian conversions (encoding/binary, BigEndian).                    *)
(***************************************************************************)
Signed8(b) == IF b >= 128 THEN b - 256 ELSE b

Pow256(n) == CASE n = 0 -> 1 [] n = 1 -> 256 [] n = 2 -> 65536 [] n = 3 -> 16777216

\* Bytes of a w-byte big-endian two's complement integer, w <= 4.
BEBytes(v, w) == [i \in 1..w |-> (v \div Pow256(w - i)) % 256]

\* Signed value of a big-endian byte sequence of at most 4 bytes.
BESigned(bs) ==
    CASE Len(bs) = 0 -> 0
      [] Len(bs) = 1 -> Signed8(bs[1])
      [] Len(bs) = 2 -> Signed8(bs[1]) * 256 + bs[2]
      [] Len(bs) = 3 -> Signed8(bs[1]) * 65536 + bs[2] * 256 + bs[3]
      [] Len(bs) = 4 -> Signed8(bs[1]) * 16777216 + bs[2] * 65536 + bs[3] * 256 + bs[4]

\* Bytes per limb of a w-byte value: a 64-bit value is two 32-bit halves.
LimbBytes(w) == IF w = 8 THEN 4 ELSE w

\* Limbs of the values in bs, each w bytes wide.
LimbsOf(bs, w) ==
    [j \in 1..(Len(bs) \div LimbBytes(w)) |->
        BESigned(SubSeq(bs, (j - 1) * LimbBytes(w) + 1, j * LimbBytes(w)))]

BytesOfLimbs(ls, w) ==
    IF w <= 4 THEN BEBytes(ls[1], w)
    ELSE BEBytes(ls[1], 4) \o BEBytes(ls[2], 4)

ZeroLimbs(w) == IF w <= 4 THEN <<0>> ELSE <<0, 0>>

Zeros(n) == [i \in 1..n |-> 0]

RECURSIVE Flatten(_)
Flatten(ss) == IF ss = <<>> THEN <<>> ELSE Head(ss) \o Flatten(Tail(ss))

(***************************************************************************)
(* The wire format (package comment of nbt.go): documents as sequences of  *)
(* member tokens, and their encoding.  A token is                          *)
(*   [t, kind, name, val] with t one of                                    *)
(*   "scalar" (val: limbs), "bytea"/"inta" (val: elements, one limb each), *)
(*   "string" (val: bytes), "list" (kind: element kind, val: elements),    *)
(*   "listc" (a list of val[1] containers, whose members follow),          *)
(*   "open" (a nested container, whose members follow), "end" (TAG_End),   *)
(*   "bad" (the single byte `kind`, no tag of the catalog),                *)
(*   "neg" (a byte-array, int-array or list `kind` whose 32-bit count is   *)
(*   val[1] < 0; val[2] is the element kind of the list).                  *)
(***************************************************************************)
Tok(t, kind, name, val) == [t |-> t, kind |-> kind, name |-> name, val |-> val]

EncStr(str) == BEBytes(Len(str), 2) \o str

EncElems(elems, w) == Flatten([i \in 1..Len(elems) |-> BytesOfLimbs(elems[i], w)])

\* An element of a list of text, byte-array, int-array or list elements:
\* a string, the sequence of the bytes or ints of an array, or <<kind>>
\* for an empty list of that element kind.
EncListElem(kind, e) ==
    CASE kind = TagString -> EncStr(e)
      [] kind = TagByteArray -> BEBytes(Len(e), 4) \o e
      [] kind = TagIntArray ->
            BEBytes(Len(e), 4) \o Flatten([j \in 1..Len(e) |-> BEBytes(e[j], 4)])
      [] kind = TagList -> <<e[1]>> \o BEBytes(0, 4)

EncListElems(kind, elems) ==
    Flatten([i \in 1..Len(elems) |-> EncListElem(kind, elems[i])])

EncTok(tk) ==
    CASE tk.t = "scalar" ->
            <<tk.kind>> \o EncStr(tk.name) \o BytesOfLimbs(tk.val, Width(tk.kind))
      [] tk.t = "bytea" ->
            <<TagByteArray>> \o EncStr(tk.name) \o BEBytes(Len(tk.val), 4)
                \o EncElems(tk.val, 1)
      [] tk.t = "inta" ->
            <<TagIntArray>> \o EncStr(tk.name) \o BEBytes(Len(tk.val), 4)
                \o EncElems(tk.val, 4)
      [] tk.t = "string" ->
            <<TagString>> \o EncStr(tk.name) \o EncStr(tk.val)
      [] tk.t = "list" ->
            <<TagList>> \o EncStr(tk.name) \o <<tk.kind>> \o BEBytes(Len(tk.val), 4)
                \o (IF tk.kind \in ScalarTags THEN EncElems(tk.val, Width(tk.kind))
                    ELSE IF tk.kind \in {TagString, TagByteArray, TagIntArray, TagList}
                    THEN EncListElems(tk.kind, tk.val)
                    ELSE <<>>)
      [] tk.t = "listc" ->
            <<TagList>> \o EncStr(tk.name) \o <<TagCompound>> \o BEBytes(tk.val[1], 4)
      [] tk.t = "open" -> <<TagCompound>> \o EncStr(tk.name)
      [] tk.t = "end" -> <<TagEnd>>
      [] tk.t = "bad" -> <<tk.kind>>
      [] tk.t = "neg" ->
            <<tk.kind>> \o EncStr(tk.name)
                \o (IF tk.kind = TagList THEN <<tk.val[2]>> ELSE <<>>)
                \o BEBytes(tk.val[1], 4)

EncToks(toks) == Flatten([i \in 1..Len(toks) |-> EncTok(toks[i])])

EncRoot(name) == <<TagCompound>> \o EncStr(name)

(***************************************************************************)
(* What a document means: the walk over its tokens keeps the stack of open *)
(* containers and lists and collects one entry <<path, kind, val>> per     *)
(* member.  A path is the sequence of member names from the root; the i-th *)
(* element of a list is the path component <<-1, i>>.                      *)
(***************************************************************************)
Elem(i) == <<-1, i>>

CtxC(path) == [k |-> "c", path |-> path, rem |-> 0, idx |-> 0]

CtxL(path, rem, idx) == [k |-> "l", path |-> path, rem |-> rem, idx |-> idx]

\* Closing the innermost container: the enclosing list, if any, goes on to
\* its next element or is closed with the last one.
CloseTop(stack) ==
    LET rest == SubSeq(stack, 1, Len(stack) - 1)
    IN  IF rest # <<>> /\ rest[Len(rest)].k = "l"
        THEN LET l == rest[Len(rest)]
                 under == SubSeq(rest, 1, Len(rest) - 1)
             IN  IF l.rem > 0
                 THEN under \o <<CtxL(l.path, l.rem - 1, l.idx + 1),
                                 CtxC(Append(l.path, Elem(l.idx + 1)))>>
                 ELSE under
        ELSE rest

\* The entry of a member token met in the container at path.
MemberEntry(path, tk) ==
    LET p == Append(path, tk.name)
    IN  CASE tk.t = "scalar" -> <<p, tk.kind, tk.val>>
          [] tk.t = "bytea" -> <<p, TagByteArray, Flatten(tk.val)>>
          [] tk.t = "inta" -> <<p, TagIntArray, Flatten(tk.val)>>
          [] tk.t = "string" -> <<p, TagString, tk.val>>
          [] tk.t = "list" ->
                <<p, TagList, <<tk.kind, Len(tk.val)>> \o
                    (IF tk.kind \in {TagString, TagByteArray, TagIntArray, TagList}
                     THEN EncListElems(tk.kind, tk.val)
                     ELSE Flatten(tk.val))>>
          [] tk.t = "listc" -> <<p, TagList, <<TagCompound, tk.val[1]>>>>
          [] tk.t = "open" -> <<p, TagCompound, tk.name>>

\* Path p leads to the member at path q or to something inside it.
IsPrefix(p, q) == Len(p) <= Len(q) /\ SubSeq(q, 1, Len(p)) = p

\* st: [stack, entries, last, dup, bad, closedAt]; closedAt is the index of
\* the token that closes the root (0 while it is open); last is entries
\* with every member replacing an earlier member of the same name in its
\* container, and everything that member held.
RECURSIVE Walk(_, _, _)
Walk(toks, i, st) ==
    IF i > Len(toks) \/ st.stack = <<>> \/ st.bad
    THEN st
    ELSE
      LET tk == toks[i]
          top == st.stack[Len(st.stack)]
          p == Append(top.path, tk.name)
          clash == \E e \in st.entries : e[1] = p
          withEntry == [st EXCEPT !.entries = @ \cup {MemberEntry(top.path, tk)},
                                  !.last = {e \in @ : ~IsPrefix(p, e[1])}
                                              \cup {MemberEntry(top.path, tk)},
                                  !.dup = @ \/ clash]
      IN  CASE tk.t \in {"bad", "neg"} -> [st EXCEPT !.bad = TRUE]
            [] tk.t = "end" ->
                 LET s2 == CloseTop(st.stack)
                     opened == IF s2 # <<>> /\ Len(s2) = Len(st.stack)
                               THEN {<<s2[Len(s2)].path, TagCompound, <<>>>>}
                               ELSE {}
                 IN  Walk(toks, i + 1,
                          [st EXCEPT !.stack = s2,
                                     !.entries = @ \cup opened,
                                     !.last = @ \cup opened,
                                     !.closedAt = IF s2 = <<>> THEN i ELSE 0])
            [] tk.t = "open" ->
                 Walk(toks, i + 1, [withEntry EXCEPT !.stack = Append(@, CtxC(p))])
            [] tk.t = "listc" /\ tk.val[1] > 0 ->
                 Walk(toks, i + 1,
                      [withEntry EXCEPT
                          !.stack = @ \o <<CtxL(p, tk.val[1] - 1, 1),
                                           CtxC(Append(p, Elem(1)))>>,
                          !.entries = @ \cup {<<Append(p, Elem(1)), TagCompound, <<>>>>},
                          !.last = @ \cup {<<Append(p, Elem(1)), TagCompound, <<>>>>}])
            [] OTHER -> Walk(toks, i + 1, withEntry)

\* Before the first member: the root is open.
WalkStart ==
    [stack |-> <<CtxC(<<>>)>>, entries |-> {}, last |-> {}, dup |-> FALSE,
     bad |-> FALSE, closedAt |-> 0]

WalkDoc(d) == Walk(d.members, 1, WalkStart)

\* The terminators that close what the tokens leave open: one per open
\* container and one per list element not yet begun.
RECURSIVE Closers(_)
Closers(stack) ==
    IF stack = <<>> THEN <<>>
    ELSE LET top == stack[Len(stack)]
             n == IF top.k = "c" THEN 1 ELSE top.rem
         IN  [i \in 1..n |-> TagEnd] \o Closers(SubSeq(stack, 1, Len(stack) - 1))

\* The entries of the list elements that only the closers create.
RECURSIVE ClosedElems(_)
ClosedElems(stack) ==
    IF stack = <<>> THEN {}
    ELSE LET top == stack[Len(stack)]
         IN  (IF top.k = "l"
              THEN {<<Append(top.path, Elem(top.idx + j)), TagCompound, <<>>>> :
                        j \in 1..top.rem}
              ELSE {})
             \cup ClosedElems(SubSeq(stack, 1, Len(stack) - 1))

Encode(d) == EncRoot(d.name) \o EncToks(d.members) \o Closers(WalkDoc(d).stack)

\* The members a decoder must find in the document.
Expected(d) == LET w == WalkDoc(d) IN w.entries \cup ClosedElems(w.stack)

\* The members a map keeps of a document with repeated names: the last of
\* each name.
ExpectedLast(d) == LET w == WalkDoc(d) IN w.last \cup ClosedElems(w.stack)

\* Cursor position just behind the terminator of the root.
RootEndPos(d) ==
    LET w == WalkDoc(d)
    IN  IF w.closedAt > 0
        THEN Len(EncRoot(d.name)) + Len(EncToks(SubSeq(d.members, 1, w.closedAt)))
        ELSE Len(Encode(d))

(***************************************************************************)
(* Primitive reader: read and read_string.  read is binary.Read with the   *)
(* error dropped: when fewer than n bytes remain, io.ReadFull consumes     *)
(* what is left, binary.Read returns before decoding, and the destination  *)
(* keeps the value it had (zero for a fresh variable or a fresh slice).    *)
(***************************************************************************)
Avail(p, n) == p + n <= Len(input)

Fetch(p, n) == SubSeq(input, p + 1, p + n)

\* The cursor after read of n bytes at cursor p.
Adv(p, n) == IF Avail(p, n) THEN p + n ELSE Len(input)

\* read(&x, src) for an n-byte integer x whose value before the call is old.
ReadInt(p, n, old) == IF Avail(p, n) THEN BESigned(Fetch(p, n)) ELSE old

\* read_string at cursor p: strlen is an int16; make([]byte, strlen) panics
\* when it is negative.
read_string(p) ==
    LET strlen == ReadInt(p, 2, 0)
        p1 == Adv(p, 2)
    IN  IF strlen < 0
        THEN [panic |-> TRUE, str |-> <<>>, pos |-> p1]
        ELSE [panic |-> FALSE,
              str |-> IF Avail(p1, strlen) THEN Fetch(p1, strlen) ELSE Zeros(strlen),
              pos |-> Adv(p1, strlen)]

(***************************************************************************)
(* Compound objects and the values of their data map.                      *)
(***************************************************************************)
Nil == 0

\* The Compound objects memory has room for.  An input whose last tag is a
\* container tag allocates one more container per iteration, without end,
\* until the Go runtime stops the process ("fatal error: out of memory");
\* no document of the model needs more than MaxTokens + 2 containers.
MaxHeap == 2 * MaxTokens + 4

NewCompound(name, parent) ==
    [name |-> name, data |-> [n \in {} |-> 0], parent |-> parent]

\* A value of dynamic type gotype.  v is flat: the limbs of a scalar, the
\* bytes of a string, the limbs of all elements of a slice in order, the
\* address of a *Compound; the other fields are those of a *List (below).
Value(gotype, v) ==
    [gotype |-> gotype, v |-> v, name |-> <<>>, list_type |-> 0, length |-> 0,
     elemtype |-> ""]

\* Mutant: a name already in the map keeps its value.
SetDataKeepsFirst(h, c, name, val) ==
    LET d == h[c].data
    IN  [h EXCEPT ![c].data =
            [n \in DOMAIN d \cup {name} |-> IF n \in DOMAIN d THEN d[n] ELSE val]]

\* c.data[name] = val on the heap h.
SetData(h, c, name, val) ==
    LET d == h[c].data
    IN  [h EXCEPT ![c].data =
            [n \in DOMAIN d \cup {name} |-> IF n = name THEN val ELSE d[n]]]

NoList == [active |-> FALSE, name |-> <<>>, list_type |-> 0, length |-> 0, data |-> <<>>]

\* Mutant: a list element is made a child of the container holding the list.
NewElementInHolder(holder) == NewCompound(<<>>, holder)

\* The container of a list element, read_compound(src, "", nil): it has no
\* name and no parent, whatever container holds the list.
NewElement(holder) == NewCompound(<<>>, Nil)

NewFrame(c) == [root |-> c, current |-> c, tag |-> 0, list |-> NoList]

Top == frames[Len(frames)]

\* The *List read_list returns: name, list_type, length, and data, a slice
\* of type elemtype whose elements are v.
ListValue(name, list_type, length, elemtype, elems) ==
    [gotype |-> "*List", v |-> elems, name |-> name, list_type |-> list_type,
     length |-> length, elemtype |-> elemtype]

\* The limbs of a slice of n values of w bytes each after one
\* read(data, src): all elements, or none when the bytes do not suffice.
ReadSlice(p, n, w) ==
    IF Avail(p, n * w) THEN LimbsOf(Fetch(p, n * w), w)
    ELSE Zeros((n * w) \div LimbBytes(w))

\* read(&tag, src) for a byte whose value before the call is old.
ReadByte(p, old) == IF Avail(p, 1) THEN input[p + 1] ELSE old

(***************************************************************************)
(* Compound.store (nbt.go): name := read_string(src); read(data, src);     *)
(* c.data[name] = data, where data points to a fresh zero value of kind k. *)
(***************************************************************************)
store(h, c, k, p) ==
    LET ns == read_string(p)
        w == Width(k)
        value == IF Avail(ns.pos, w) THEN LimbsOf(Fetch(ns.pos, w), w) ELSE ZeroLimbs(w)
    IN  IF ns.panic
        THEN [panic |-> TRUE, heap |-> h, pos |-> ns.pos]
        ELSE [panic |-> FALSE,
              heap |-> SetData(h, c, ns.str, Value(PtrType(k), value)),
              pos |-> Adv(ns.pos, w)]

(***************************************************************************)
(* The array cases of read_compound: name, int32 length, make (panics on a *)
(* negative length), one read of the whole slice of w-byte elements.       *)
(***************************************************************************)
read_array(h, c, gotype, w, p) ==
    LET ns == read_string(p)
        length == ReadInt(ns.pos, 4, 0)
        p2 == Adv(ns.pos, 4)
    IN  IF ns.panic THEN [panic |-> TRUE, heap |-> h, pos |-> ns.pos]
        ELSE IF length < 0 THEN [panic |-> TRUE, heap |-> h, pos |-> p2]
        ELSE [panic |-> FALSE,
              heap |-> SetData(h, c, ns.str, Value(gotype, ReadSlice(p2, length, w))),
              pos |-> Adv(p2, length * w)]

(***************************************************************************)
(* read_list up to its switch: header, then the slice cases.  outcome is   *)
(* "compounds" (the element loop is run by CaseList), "slice" (the list is *)
(* complete) or "panic" (make with a negative length, a negative name      *)
(* length, or the default case of the switch).                             *)
(***************************************************************************)
ListOutcome(outcome, name, list_type, length, elems, p) ==
    [outcome |-> outcome, name |-> name, list_type |-> list_type,
     length |-> length, elems |-> elems, pos |-> p]

\* Mutant: the length of the list is read as a 16-bit integer.
read_list_short_length(p) ==
    LET ns == read_string(p)
        list_type == ReadByte(ns.pos, 0)
        p2 == Adv(ns.pos, 1)
        length == ReadInt(p2, 2, 0)
        p3 == Adv(p2, 2)
    IN  IF ns.panic THEN ListOutcome("panic", <<>>, 0, 0, <<>>, ns.pos)
        ELSE IF list_type = TagCompound /\ length >= 0
        THEN ListOutcome("compounds", ns.str, list_type, length, <<>>, p3)
        ELSE IF list_type \in ScalarTags /\ length >= 0
        THEN ListOutcome("slice", ns.str, list_type, length,
                         ReadSlice(p3, length, Width(list_type)),
                         Adv(p3, length * Width(list_type)))
        ELSE ListOutcome("panic", ns.str, list_type, length, <<>>, p3)

read_list(p) ==
    LET ns == read_string(p)
        list_type == ReadByte(ns.pos, 0)
        p2 == Adv(ns.pos, 1)
        length == ReadInt(p2, 4, 0)
        p3 == Adv(p2, 4)
    IN  IF ns.panic THEN ListOutcome("panic", <<>>, 0, 0, <<>>, ns.pos)
        ELSE IF list_type = TagCompound
        THEN IF length < 0
             THEN ListOutcome("panic", ns.str, list_type, length, <<>>, p3)
             ELSE ListOutcome("compounds", ns.str, list_type, length, <<>>, p3)
        ELSE IF list_type \in ScalarTags
        THEN IF length < 0
             THEN ListOutcome("panic", ns.str, list_type, length, <<>>, p3)
             ELSE ListOutcome("slice", ns.str, list_type, length,
                              ReadSlice(p3, length, Width(list_type)),
                              Adv(p3, length * Width(list_type)))
        ELSE ListOutcome("panic", ns.str, list_type, length, <<>>, p3)

(***************************************************************************)
(* Control transfers shared by the actions.                                *)
(***************************************************************************)
\* The tag the loop dispatches on: `tag` keeps its previous value when
\* read(&tag, src) finds no byte.
TagRead == ReadByte(pos, Top.tag)

AfterTag == Adv(pos, 1)

\* The caller frames that stay as they are while the innermost one steps.
Below == SubSeq(frames, 1, Len(frames) - 1)

\* The loop of the innermost call goes on with heap h, its frame f, cursor p.
Continue(h, f, p) ==
    /\ pc' = "read_compound"
    /\ heap' = h
    /\ frames' = Append(Below, [f EXCEPT !.tag = TagRead])
    /\ pos' = p
    /\ beat' = 1 - beat
    /\ UNCHANGED <<gz, got, doc, input, ret>>

\* Decode returns (c, err) to its caller.
Returned(h, c, err, p) ==
    /\ pc' = "returned"
    /\ heap' = h
    /\ frames' = <<>>
    /\ pos' = p
    /\ ret' = [c |-> c, err |-> err]
    /\ UNCHANGED <<gz, got, doc, input, beat>>

\* A run-time panic (or the runtime's fatal error) ends every call: Decode
\* returns nothing.
Panicked(p) ==
    /\ pc' = "panicked"
    /\ frames' = <<>>
    /\ pos' = p
    /\ UNCHANGED <<gz, got, doc, input, heap, beat, ret>>

\* Outcome of a case that stores one member into the current container.
Stored(r) ==
    IF r.panic THEN Panicked(r.pos) ELSE Continue(r.heap, Top, r.pos)

(***************************************************************************)
(* DecodeGzip.  compress/gzip is the Go standard library: NewReader reads  *)
(* the 10-byte header (magic 1f 8b, method 8, flags, mtime, xfl, os) and   *)
(* returns (nil, err) when it is short or wrong; io.Copy writes to buf     *)
(* every byte the reader yields before an error, and DecodeGzip drops the  *)
(* error of io.Copy, so a bad trailer (CRC-32, size) changes nothing.      *)
(* The envelopes of the model have no optional header fields and hold one  *)
(* final stored deflate block: 01, LEN and its complement (little-endian), *)
(* the LEN bytes.                                                          *)
(***************************************************************************)
GzipHeader == <<31, 139, 8, 0, 0, 0, 0, 0, 0, 255>>

LE16(n) == <<n % 256, (n \div 256) % 256>>

\* A final stored block holding data, and the 8-byte trailer.
Gzip(data) ==
    GzipHeader \o <<1>> \o LE16(Len(data)) \o LE16(65535 - Len(data)) \o data
        \o Zeros(8)

\* gzip.NewReader succeeds.
HeaderOK(bs) ==
    /\ Len(bs) >= Len(GzipHeader)
    /\ bs[1] = 31 /\ bs[2] = 139 /\ bs[3] = 8

\* What io.Copy(buf, r) leaves in buf: the bytes of the stored block that
\* are there, nothing when LEN and its complement disagree.
Gunzip(bs) ==
    LET h == Len(GzipHeader)
        len == bs[h + 2] + 256 * bs[h + 3]
        nlen == bs[h + 4] + 256 * bs[h + 5]
        last == IF h + 5 + len <= Len(bs) THEN h + 5 + len ELSE Len(bs)
    IN  IF Len(bs) >= h + 5 /\ bs[h + 1] = 1 /\ len + nlen = 65535
        THEN SubSeq(bs, h + 6, last)
        ELSE <<>>

\* r, err := gzip.NewReader(src); defer r.Close(); on an error r is nil,
\* and the deferred r.Close() dereferences it when DecodeGzip returns.
DecodeGzip ==
    /\ pc = "DecodeGzip"
    /\ IF ~HeaderOK(gz.src)
       THEN /\ pc' = "panicked"
            /\ UNCHANGED <<gz, got, doc, input, pos, heap, frames, beat, ret>>
       ELSE /\ pc' = "Decode"
            /\ input' = Gunzip(gz.src)
            /\ UNCHANGED <<gz, got, doc, pos, heap, frames, beat, ret>>

(***************************************************************************)
(* Decode: the root tag, the root name, the call of read_compound.         *)
(***************************************************************************)
\* Mutant: the root test lets every tag from the container tag upward pass.
RootTagAtLeastCompound(tag) == tag >= TagCompound

RootTagOK(tag) == tag = TagCompound

Decode ==
    /\ pc = "Decode"
    /\ LET tag == ReadByte(pos, 0)
           ns == read_string(Adv(pos, 1))
       IN  IF ~RootTagOK(tag)
           THEN Returned(heap, Nil, "ErrNotCompound", Adv(pos, 1))
           ELSE IF ns.panic THEN Panicked(ns.pos)
           ELSE /\ pc' = "read_compound"
                /\ heap' = <<NewCompound(ns.str, Nil)>>
                /\ frames' = <<NewFrame(1)>>
                /\ pos' = ns.pos
                /\ UNCHANGED <<gz, got, doc, input, beat, ret>>

(***************************************************************************)
(* read_compound, one action per case of the switch.                       *)
(***************************************************************************)
\* What the innermost read_compound does when it returns (root, nil): the
\* outermost call ends Decode; a call made by read_list hands its container
\* to the element loop, which reads the next element or completes the list
\* and resumes the loop of the calling read_compound.
ReturnRoot ==
    IF Len(frames) = 1
    THEN Returned(heap, Top.root, "nil", AfterTag)
    ELSE LET caller == frames[Len(frames) - 1]
             l == caller.list
             data == Append(l.data, Top.root)
             under == SubSeq(frames, 1, Len(frames) - 2)
         IN  IF Len(data) < l.length
             THEN IF Len(heap) >= MaxHeap THEN Panicked(AfterTag)
                  ELSE /\ pc' = "read_compound"
                       /\ heap' = Append(heap, NewElement(caller.current))
                       /\ frames' = under \o <<[caller EXCEPT !.list.data = data],
                                               NewFrame(Len(heap) + 1)>>
                       /\ pos' = AfterTag
                       /\ beat' = 1 - beat
                       /\ UNCHANGED <<gz, got, doc, input, ret>>
             ELSE /\ pc' = "read_compound"
                  /\ heap' = SetData(heap, caller.current, l.name,
                                     ListValue(l.name, l.list_type, l.length,
                                               "[]*Compound", data))
                  /\ frames' = Append(under, [caller EXCEPT !.list = NoList])
                  /\ pos' = AfterTag
                  /\ beat' = 1 - beat
                  /\ UNCHANGED <<gz, got, doc, input, ret>>

CaseEnd ==
    /\ pc = "read_compound"
    /\ TagRead = TagEnd
    /\ IF heap[Top.current].parent = Nil
       THEN ReturnRoot
       ELSE Continue(heap, [Top EXCEPT !.current = heap[Top.current].parent], AfterTag)

CaseScalar(k) ==
    /\ pc = "read_compound"
    /\ TagRead = k
    /\ Stored(store(heap, Top.current, k, AfterTag))

CaseByteArray ==
    /\ pc = "read_compound"
    /\ TagRead = TagByteArray
    /\ Stored(read_array(heap, Top.current, "[]int8", 1, AfterTag))

CaseIntArray ==
    /\ pc = "read_compound"
    /\ TagRead = TagIntArray
    /\ Stored(read_array(heap, Top.current, "[]int32", 4, AfterTag))

CaseString ==
    /\ pc = "read_compound"
    /\ TagRead = TagString
    /\ LET name == read_string(AfterTag)
           data == read_string(name.pos)
       IN  IF name.panic THEN Panicked(name.pos)
           ELSE IF data.panic THEN Panicked(data.pos)
           ELSE Continue(SetData(heap, Top.current, name.str, Value("string", data.str)),
                         Top, data.pos)

CaseList ==
    /\ pc = "read_compound"
    /\ TagRead = TagList
    /\ \E l \in {read_list(AfterTag)} :
           CASE l.outcome = "panic" -> Panicked(l.pos)
             [] l.outcome = "slice" ->
                  Continue(SetData(heap, Top.current, l.name,
                                   ListValue(l.name, l.list_type, l.length,
                                             SliceType(l.list_type), l.elems)),
                           Top, l.pos)
             [] l.outcome = "compounds" /\ l.length = 0 ->
                  Continue(SetData(heap, Top.current, l.name,
                                   ListValue(l.name, l.list_type, l.length,
                                             "[]*Compound", <<>>)),
                           Top, l.pos)
             [] l.outcome = "compounds" /\ l.length > 0 ->
                  IF Len(heap) >= MaxHeap THEN Panicked(l.pos)
                  ELSE /\ pc' = "read_compound"
                       /\ heap' = Append(heap, NewElement(Top.current))
                       /\ frames' = Below \o
                             <<[Top EXCEPT !.tag = TagRead,
                                           !.list = [active |-> TRUE, name |-> l.name,
                                                     list_type |-> l.list_type,
                                                     length |-> l.length, data |-> <<>>]],
                               NewFrame(Len(heap) + 1)>>
                       /\ pos' = l.pos
                       /\ beat' = 1 - beat
                       /\ UNCHANGED <<gz, got, doc, input, ret>>

CaseCompound ==
    /\ pc = "read_compound"
    /\ TagRead = TagCompound
    /\ LET name == read_string(AfterTag)
           c == Len(heap) + 1
       IN  IF name.panic \/ Len(heap) >= MaxHeap THEN Panicked(name.pos)
           ELSE Continue(SetData(Append(heap, NewCompound(name.str, Top.current)),
                                 Top.current, name.str, Value("*Compound", <<c>>)),
                         [Top EXCEPT !.current = c], name.pos)

\* Mutant: the default case returns no container with the error.
CaseDefaultReturnsNil ==
    /\ pc = "read_compound"
    /\ TagRead \notin TagEnd..TagIntArray
    /\ Returned(heap, Nil, "Unknown type", AfterTag)

\* Mutant: an unknown tag is skipped and the loop goes on.
CaseDefaultSkips ==
    /\ pc = "read_compound"
    /\ TagRead \notin TagEnd..TagIntArray
    /\ Continue(heap, Top, AfterTag)

\* default: every enclosing call returns its root with the error; Decode
\* returns what the outermost read_compound returns.
CaseDefault ==
    /\ pc = "read_compound"
    /\ TagRead \notin TagEnd..TagIntArray
    /\ Returned(heap, frames[1].root, "Unknown type", AfterTag)

(***************************************************************************)
(* The typed getters of Compound (nbt.go): self.data[name].(T).  The type  *)
(* assertion panics unless the dynamic type of the stored value is exactly *)
(* T; a missing name gives the nil interface, which has no type.           *)
(***************************************************************************)
\* The type the getter of kind k asserts.
GetterType(k) ==
    CASE k = TagByte -> "int8"
      [] k = TagShort -> "int16"
      [] k = TagInt -> "int32"
      [] k = TagLong -> "int64"
      [] k = TagFloat -> "float32"
      [] k = TagDouble -> "float64"
      [] k = TagString -> "string"
      [] k = TagList -> "*List"
      [] k = TagCompound -> "*Compound"

GetterKinds == ScalarTags \cup {TagString, TagList, TagCompound}

\* No getter has been called.
NoGet == [kind |-> 0, c |-> 0, name |-> <<>>, panic |-> FALSE, v |-> <<>>]

\* Byte, Short, Int, Long, Float, Double, String, List, Compound.
Getter(h, c, k, name) ==
    IF name \in DOMAIN h[c].data /\ h[c].data[name].gotype = GetterType(k)
    THEN [kind |-> k, c |-> c, name |-> name, panic |-> FALSE, v |-> h[c].data[name].v]
    ELSE [kind |-> k, c |-> c, name |-> name, panic |-> TRUE, v |-> <<>>]

\* Compound.Len.
CompoundLen(h, c) == Cardinality(DOMAIN h[c].data)

\* The caller of Decode, handed a tree and no error, calls one getter on a
\* container of the tree with the name of one of its members.
Get(c, k, name) ==
    /\ pc = "returned"
    /\ ret.err = "nil"
    /\ ret.c # Nil
    /\ got = NoGet
    /\ name \in DOMAIN heap[c].data
    /\ got' = Getter(heap, c, k, name)
    /\ UNCHANGED <<gz, doc, input, pos, pc, heap, frames, beat, ret>>

Next ==
    \/ Decode
    \/ CaseEnd
    \/ \E k \in ScalarTags : CaseScalar(k)
    \/ CaseByteArray
    \/ CaseString
    \/ CaseList
    \/ CaseCompound
    \/ CaseIntArray
    \/ CaseDefault

(***************************************************************************)
(* The inputs.  A document is a root name and at most MaxTokens member     *)
(* tokens: any sequence over the structural tokens, or one token of the    *)
(* full catalog after structural ones.  The input is its encoding, cut     *)
(* anywhere from the start of its last token on (a cut before that is the  *)
(* cut of a shorter document), or its encoding with another first byte.    *)
(***************************************************************************)
NameA == <<97>>

NameB == <<98>>

SampleVal(k) ==
    CASE k = TagByte -> <<-2>>
      [] k = TagShort -> <<32767>>
      [] k = TagInt -> <<2147483647>>
      [] k = TagLong -> <<2147483647, -1>>
      [] k = TagFloat -> <<1056964608>>
      [] k = TagDouble -> <<1072168960, 0>>

ScalarTok(k) == Tok("scalar", k, IF k % 2 = 1 THEN NameA ELSE NameB, SampleVal(k))

StringTok == Tok("string", TagString, NameB, <<72, 97>>)

OpenTok(name) == Tok("open", TagCompound, name, <<>>)

EndTok == Tok("end", TagEnd, <<>>, <<>>)

ListCTok(n) == Tok("listc", TagCompound, NameA, <<n>>)

\* A member of kind k whose count is negative.
NegTok(k, elemkind) == Tok("neg", k, NameB, <<-1, elemkind>>)

StructuralToks == {OpenTok(NameA), EndTok, ScalarTok(TagByte), StringTok, ListCTok(1)}

WideToks ==
    {ScalarTok(k) : k \in ScalarTags}
    \cup {Tok("bytea", TagByteArray, NameB, <<<<0>>, <<62>>>>),
          Tok("inta", TagIntArray, NameA, <<<<-1>>>>),
          Tok("list", TagLong, NameB, <<<<0, 11>>, <<0, 12>>>>),
          Tok("list", TagByte, NameA, <<<<-2>>>>),
          Tok("list", TagString, NameB, <<<<72, 97>>>>),
          Tok("list", TagByteArray, NameB, <<<<1, 2>>>>),
          Tok("list", TagIntArray, NameB, <<<<7>>>>),
          Tok("list", TagList, NameB, <<<<TagByte>>>>),
          OpenTok(NameB), ListCTok(2),
          Tok("bad", 12, <<>>, <<>>), Tok("bad", 255, <<>>, <<>>),
          NegTok(TagByteArray, 0), NegTok(TagIntArray, 0),
          NegTok(TagList, TagByte), NegTok(TagList, TagCompound)}
    \cup {Tok("list", k, NameB, <<>>) : k \in TagEnd..TagIntArray}

RootName == <<76>>

SeqsUpTo(S, n) == UNION {[1..m -> S] : m \in 0..n}

\* A token of the full catalog stands after structural tokens and is
\* followed by nothing or by one more member.
MemberSeqs ==
    SeqsUpTo(StructuralToks, MaxTokens)
    \cup {pre \o <<w>> : w \in WideToks, pre \in SeqsUpTo(StructuralToks, MaxTokens - 1)}
    \cup {pre \o <<w, ScalarTok(TagByte)>> :
            w \in WideToks, pre \in SeqsUpTo(StructuralToks, MaxTokens - 2)}

\* The root is named; documents of at most one member also come with the
\* empty root name.
Docs ==
    {[name |-> RootName, members |-> m] : m \in MemberSeqs}
    \cup {[name |-> <<>>, members |-> m] : m \in {x \in MemberSeqs : Len(x) <= 1}}

\* Where the last token of d begins in Encode(d).
LastTokenStart(d) ==
    IF d.members = <<>> THEN 0
    ELSE Len(EncRoot(d.name)) + Len(EncToks(SubSeq(d.members, 1, Len(d.members) - 1)))

\* First bytes that are not the container tag.
OtherFirstBytes == {0, 1, 9, 11, 12, 255}

\* The largest value of the int16 that read_string reads the length into.
MaxInt16 == 32767

\* A string whose length does not fit an int16.
LongString == [i \in 1..(MaxInt16 + 1) |-> 97]

\* Documents with such a string as the root name, as a member name and as
\* a text value.
LongDocs ==
    {[name |-> LongString, members |-> <<>>],
     [name |-> RootName, members |-> <<Tok("scalar", TagByte, LongString, <<-2>>)>>],
     [name |-> RootName, members |-> <<Tok("string", TagString, NameB, LongString)>>]}

\* The state at the call of Decode(src).
AtDecode ==
    /\ gz = [called |-> FALSE, src |-> <<>>]
    /\ got = NoGet
    /\ pos = 0
    /\ pc = "Decode"
    /\ heap = <<>>
    /\ frames = <<>>
    /\ beat = 0
    /\ ret = [c |-> Nil, err |-> "nil"]

Init ==
    /\ \/ /\ doc \in Docs
          /\ \/ \E cut \in LastTokenStart(doc)..Len(Encode(doc)) :
                   input = SubSeq(Encode(doc), 1, cut)
             \/ /\ Len(doc.members) <= 1
                /\ \E b \in OtherFirstBytes : input = <<b>> \o Tail(Encode(doc))
       \/ /\ doc \in LongDocs
          /\ input = Encode(doc)
    /\ AtDecode

Spec == Init /\ [][Next]_vars

\* The documents of at most MaxShort members, for the check of termination.
InitShort == Init /\ Len(doc.members) <= MaxShort

\* The loop of read_compound has no suspension point: a step that can be
\* taken is taken.
FairSpec == InitShort /\ [][Next]_vars /\ WF_vars(Next)

\* Decode and then one getter call, on the documents of at most MaxShort
\* members.
NextGet ==
    \/ Next
    \/ \E c \in 1..Len(heap), k \in GetterKinds :
          \E name \in DOMAIN heap[c].data : Get(c, k, name)

GetSpec == InitShort /\ [][NextGet]_vars

\* What DecodeGzip is handed: the envelope of a document of at most
\* MaxShort members, whole or cut, with a wrong magic number or method, or
\* the bare encoding without envelope.
Envelopes(d) ==
    LET g == Gzip(Encode(d))
    IN  {g, Encode(d), <<>>, SubSeq(g, 1, 9), SubSeq(g, 1, Len(g) - 9),
         <<31, 140>> \o SubSeq(g, 3, Len(g)), <<31, 139, 7>> \o SubSeq(g, 4, Len(g))}

InitGzip ==
    /\ doc \in Docs
    /\ Len(doc.members) <= MaxShort
    /\ \E e \in Envelopes(doc) : gz = [called |-> TRUE, src |-> e]
    /\ input = <<>>
    /\ got = NoGet
    /\ pos = 0
    /\ pc = "DecodeGzip"
    /\ heap = <<>>
    /\ frames = <<>>
    /\ beat = 0
    /\ ret = [c |-> Nil, err |-> "nil"]

NextGzip == DecodeGzip \/ Next

GzipSpec == InitGzip /\ [][NextGzip]_vars

Done == pc \in {"returned", "panicked"}

TypeOK ==
    /\ pos \in 0..Len(input)
    /\ pc \in {"DecodeGzip", "Decode", "read_compound", "returned", "panicked"}
    /\ Len(heap) <= MaxHeap

(***************************************************************************)
(* Structural inspection of a decoded tree: the entries <<path, kind,      *)
(* val>> found by following data maps from container c, in the form of     *)
(* Expected.  The kind of a stored value is the kind whose Go type it has  *)
(* (the type switch of pretty_print; the text case of read_compound stores *)
(* a string).                                                              *)
(***************************************************************************)
KindOfType(gotype) ==
    CASE gotype = "*int8" -> TagByte
      [] gotype = "*int16" -> TagShort
      [] gotype = "*int32" -> TagInt
      [] gotype = "*int64" -> TagLong
      [] gotype = "*float32" -> TagFloat
      [] gotype = "*float64" -> TagDouble
      [] gotype = "[]int8" -> TagByteArray
      [] gotype = "string" -> TagString
      [] gotype = "*List" -> TagList
      [] gotype = "*Compound" -> TagCompound
      [] gotype = "[]int32" -> TagIntArray

RECURSIVE Entries(_, _, _)
RECURSIVE EntriesOf(_, _, _)
EntriesOf(h, p, val) ==
    CASE val.gotype = "*Compound" ->
            {<<p, TagCompound, h[val.v[1]].name>>} \cup Entries(h, val.v[1], p)
      [] val.gotype = "*List" /\ val.elemtype = "[]*Compound" ->
            {<<p, TagList, <<val.list_type, val.length>>>>}
            \cup UNION {{<<Append(p, Elem(i)), TagCompound, h[val.v[i]].name>>}
                          \cup Entries(h, val.v[i], Append(p, Elem(i))) :
                        i \in 1..Len(val.v)}
      [] val.gotype = "*List" /\ val.elemtype # "[]*Compound" ->
            {<<p, TagList, <<val.list_type, val.length>> \o val.v>>}
      [] OTHER -> {<<p, KindOfType(val.gotype), val.v>>}

Entries(h, c, path) ==
    UNION {EntriesOf(h, Append(path, n), h[c].data[n]) : n \in DOMAIN h[c].data}

\* What the caller of Decode finds in the tree it was handed.
Decoded == Entries(heap, ret.c, <<>>)

(***************************************************************************)
(* Facts about the input, from the document it was produced from.          *)
(***************************************************************************)
\* The input is the whole encoding of doc.
Whole == input = Encode(doc)

\* doc is a document of the format: tags of the catalog only, member names
\* unique in their container, nothing behind the terminator of the root.
ValidDoc ==
    LET w == WalkDoc(doc)
    IN  /\ ~w.bad
        /\ ~w.dup
        /\ w.closedAt \in {0, Len(doc.members)}

\* The input is a proper prefix of the encoding of doc that ends before the
\* terminator of the root.
Truncated ==
    /\ input = SubSeq(Encode(doc), 1, Len(input))
    /\ Len(input) < RootEndPos(doc)

\* Cursor positions of Encode(doc) at which a tag byte stands or would
\* stand: behind the root name, behind every token and behind every closer.
TagBoundaries ==
    LET r == Len(EncRoot(doc.name))
        t == Len(EncToks(doc.members))
    IN  {r + Len(EncToks(SubSeq(doc.members, 1, i))) : i \in 0..Len(doc.members)}
        \cup (r + t)..Len(Encode(doc))

(***************************************************************************)
(* Sanity of the model on the inputs the decoder supports.                 *)
(***************************************************************************)
\* The list element kinds read_list has a case for, and strings whose
\* length fits the int16 of read_string.
SupportedDoc ==
    /\ Len(doc.name) <= MaxInt16
    /\ \A i \in 1..Len(doc.members) :
          /\ doc.members[i].t = "list"
                => doc.members[i].kind \in ScalarTags \cup {TagCompound}
          /\ Len(doc.members[i].name) <= MaxInt16
          /\ doc.members[i].t = "string" => Len(doc.members[i].val) <= MaxInt16

\* A whole valid document without unsupported lists decodes to its members.
SupportedDocDecodes ==
    (Whole /\ ValidDoc /\ SupportedDoc /\ pc # "Decode" /\ pc # "read_compound")
        => /\ pc = "returned"
           /\ ret.err = "nil"
           /\ heap[ret.c].name = doc.name
           /\ Decoded = Expected(doc)
           /\ pos = RootEndPos(doc)

(***************************************************************************)
(* C1.  A valid encoded document (scalar, text, byte-array, int-array,     *)
(* list and nested-container members at any depth) decodes without error   *)
(* to a tree with exactly the encoded root name, member names, kinds and   *)
(* values.                                                                 *)
(***************************************************************************)
C1_ValidDocumentDecodes ==
    (Whole /\ ValidDoc /\ Done)
        => /\ pc = "returned"
           /\ ret.err = "nil"
           /\ ret.c # Nil
           /\ heap[ret.c].name = doc.name
           /\ Decoded = Expected(doc)

(***************************************************************************)
(* C2.  For every finite input, Decode eventually returns: the member loop *)
(* of read_compound does not run forever once the input is exhausted.      *)
(***************************************************************************)
C2_DecodeTerminates == <>Done

(***************************************************************************)
(* C3.  An input that ends in the middle of a field makes Decode return a  *)
(* truncation error, and no zero-filled or partly filled member is ever    *)
(* inserted into a container.                                              *)
(***************************************************************************)
MidField == Truncated /\ Len(input) >= 1 /\ Len(input) \notin TagBoundaries

C3_MidFieldTruncation ==
    (ValidDoc /\ MidField)
        => /\ Done => (pc = "returned" /\ ret.err = "ErrTruncated")
           /\ heap # <<>> => Entries(heap, 1, <<>>) \subseteq Expected(doc)

(***************************************************************************)
(* C4.  An input that ends at a tag boundary before the terminator of the  *)
(* root has been read makes Decode return a truncation error: the end of   *)
(* input is no terminator and gives no successful result.                  *)
(***************************************************************************)
AtTagBoundary == Truncated /\ Len(input) \in TagBoundaries

C4_BoundaryTruncation ==
    (ValidDoc /\ AtTagBoundary /\ Done)
        => (pc = "returned" /\ ret.err = "ErrTruncated")

(***************************************************************************)
(* C5.  A first byte other than the container kind makes Decode return     *)
(* ErrNotCompound and no tree, without building any container.             *)
(***************************************************************************)
C5_RootTypeError ==
    (input # <<>> /\ input[1] # TagCompound /\ pc # "Decode")
        => /\ pc = "returned"
           /\ ret = [c |-> Nil, err |-> "ErrNotCompound"]
           /\ heap = <<>>

C5_Witness ==
    /\ pc = "returned"
    /\ input # <<>>
    /\ input[1] = TagList
    /\ ret.err = "ErrNotCompound"

UnknownKindNext ==
    /\ pc = "read_compound"
    /\ Avail(pos, 1)
    /\ input[pos + 1] \notin TagEnd..TagIntArray

C7_UnknownKindAborts ==
    [][/\ UnknownKindNext
          => /\ pc' = "returned"
             /\ ret'.err = "Unknown type"
             /\ pos' = pos + 1
             /\ heap' = heap
       /\ pc = "returned" => pc' = "returned" /\ pos' = pos /\ heap' = heap]_vars

\* The unknown kind was met in a container nested in a list element, while
\* the list was not yet complete.
C7_Witness ==
    /\ pc = "returned"
    /\ ret.err = "Unknown type"
    /\ \E c \in 2..Len(heap) :
          /\ heap[c].parent = Nil
          /\ DOMAIN heap[c].data # {}
          /\ \A n \in DOMAIN heap[c].data : heap[c].data[n].gotype = "*Compound"
    /\ DOMAIN heap[1].data = {}

(***************************************************************************)
(* C8.  A list of declared length 0 decodes to an empty List for every     *)
(* declared element kind 0..11, and the members that follow it decode      *)
(* normally.                                                               *)
(***************************************************************************)
HasEmptyList ==
    \E i \in 1..Len(doc.members) :
        \/ doc.members[i].t = "list" /\ doc.members[i].val = <<>>
        \/ doc.members[i].t = "listc" /\ doc.members[i].val = <<0>>

C8_EmptyListAnyKind ==
    (Whole /\ ValidDoc /\ HasEmptyList /\ Done)
        => /\ pc = "returned"
           /\ ret.err = "nil"
           /\ Decoded = Expected(doc)

(***************************************************************************)
(* C9.  Original claim: decoding a list of declared length 0 advances the  *)
(* cursor by exactly 9 bytes beyond the bytes of its name (counted from    *)
(* the list tag or from the start of read_list).                           *)
(***************************************************************************)
\* The name length prefix behind the list tag at the cursor.
ListNameLen == BESigned(Fetch(pos + 1, 2))

\* The next tag is a list tag whose header is whole: name with a length
\* prefix below 32768, element kind, and a length of 0.
EmptyListNext ==
    /\ pc = "read_compound"
    /\ Avail(pos, 3)
    /\ input[pos + 1] = TagList
    /\ ListNameLen >= 0
    /\ Avail(pos + 3 + ListNameLen, 5)
    /\ Fetch(pos + 3 + ListNameLen + 1, 4) = <<0, 0, 0, 0>>

C9_EmptyListNineBytes ==
    [][EmptyListNext
          => \/ pos' - pos - ListNameLen = 9
             \/ pos' - (pos + 1) - ListNameLen = 9]_vars

(***************************************************************************)
(* C9, amended.  read_list, given a whole header with declared length 0,   *)
(* advances the cursor by exactly 7 bytes beyond the bytes of the name     *)
(* (2-byte name length prefix, 1 element-kind byte, 4-byte length; 8 with  *)
(* the list tag) and reads no element bytes, whether it then returns the   *)
(* list or panics on the element kind.                                     *)
(***************************************************************************)
C9_EmptyListSevenBytes ==
    [][EmptyListNext => pos' = (pos + 1) + ListNameLen + 7]_vars

\* An empty list has been decoded and stored.
C9_Witness ==
    /\ pc = "read_compound"
    /\ \E n \in DOMAIN heap[1].data :
          /\ heap[1].data[n].gotype = "*List"
          /\ heap[1].data[n].length = 0
          /\ pos = Len(EncRoot(heap[1].name)) + 1 + Len(n) + 7

(***************************************************************************)
(* C10.  When Decode succeeds, the cursor stands exactly one byte behind   *)
(* the terminator of the root; bytes behind it are left unread.            *)
(***************************************************************************)
C10_StopsBehindRootTerminator ==
    (pc = "returned" /\ ret.err = "nil")
        => /\ pos = RootEndPos(doc)
           /\ pos <= Len(input)
           /\ input[pos] = TagEnd

(***************************************************************************)
(* C11.  The 2-byte length prefix of a name or text value is an unsigned   *)
(* big-endian 16-bit integer: for every prefix value L in 0..65535 that is *)
(* followed by L bytes, read_string consumes exactly those L bytes and     *)
(* returns them.  Stated for the root name (Decode), for the name of a     *)
(* scalar member (store) and for the name and value of a text member.      *)
(***************************************************************************)
\* The length prefix at cursor p, read as an unsigned 16-bit integer.
UnsignedLen(p) == input[p + 1] * 256 + input[p + 2]

\* A whole length-prefixed string stands at cursor p.
WholeStringAt(p) == Avail(p, 2) /\ Avail(p + 2, UnsignedLen(p))

StringAt(p) == Fetch(p + 2, UnsignedLen(p))

BehindString(p) == p + 2 + UnsignedLen(p)

\* The container at address c of heap h holds the bytes val under name.
HoldsBytes(h, c, name, val) ==
    /\ name \in DOMAIN h[c].data
    /\ h[c].data[name].v = val

C11_UnsignedLengthPrefix ==
    [][/\ (pc = "Decode" /\ Avail(0, 1) /\ input[1] = TagCompound /\ WholeStringAt(1))
          => /\ pc' = "read_compound"
             /\ pos' = BehindString(1)
             /\ heap'[1].name = StringAt(1)
       /\ (/\ pc = "read_compound"
           /\ Avail(pos, 1)
           /\ input[pos + 1] = TagByte
           /\ WholeStringAt(pos + 1)
           /\ Avail(BehindString(pos + 1), 1))
          => /\ pc' = "read_compound"
             /\ pos' = BehindString(pos + 1) + 1
             /\ StringAt(pos + 1) \in DOMAIN heap'[Top.current].data
       /\ (/\ pc = "read_compound"
           /\ Avail(pos, 1)
           /\ input[pos + 1] = TagString
           /\ WholeStringAt(pos + 1)
           /\ WholeStringAt(BehindString(pos + 1)))
          => /\ pc' = "read_compound"
             /\ pos' = BehindString(BehindString(pos + 1))
             /\ HoldsBytes(heap', Top.current, StringAt(pos + 1),
                           StringAt(BehindString(pos + 1)))]_vars

\* The same for the prefix values that fit an int16 (L < 32768).
ShortPrefix(p) == Avail(p, 2) /\ input[p + 1] < 128

SignedLengthPrefixRead ==
    [][/\ (/\ pc = "Decode" /\ Avail(0, 1) /\ input[1] = TagCompound
           /\ WholeStringAt(1) /\ ShortPrefix(1))
          => /\ pc' = "read_compound"
             /\ pos' = BehindString(1)
             /\ heap'[1].name = StringAt(1)
       /\ (/\ pc = "read_compound"
           /\ Avail(pos, 1)
           /\ input[pos + 1] = TagString
           /\ WholeStringAt(pos + 1) /\ ShortPrefix(pos + 1)
           /\ WholeStringAt(BehindString(pos + 1))
           /\ ShortPrefix(BehindString(pos + 1)))
          => /\ pc' = "read_compound"
             /\ pos' = BehindString(BehindString(pos + 1))
             /\ HoldsBytes(heap', Top.current, StringAt(pos + 1),
                           StringAt(BehindString(pos + 1)))]_vars

(***************************************************************************)
(* C12.  A negative 32-bit count read for a byte-array, an int-array or a  *)
(* list makes Decode return an error value: the decode ends through the    *)
(* error return, not through a crash, and nothing is stored for the member *)
(* (the count is not clamped to zero).                                     *)
(***************************************************************************)
\* Where the count of the array or list member at the cursor stands.
CountAt ==
    BehindString(pos + 1) + (IF input[pos + 1] = TagList THEN 1 ELSE 0)

\* The next member is a byte-array, an int-array or a list with a whole
\* header and a count whose sign bit is set.
NegativeCountNext ==
    /\ pc = "read_compound"
    /\ Avail(pos, 1)
    /\ input[pos + 1] \in {TagByteArray, TagIntArray, TagList}
    /\ WholeStringAt(pos + 1)
    /\ ShortPrefix(pos + 1)
    /\ Avail(CountAt, 4)
    /\ input[CountAt + 1] >= 128

C12_NegativeCountIsError ==
    [][NegativeCountNext
          => /\ pc' = "returned"
             /\ ret'.err \notin {"nil", "ErrNotCompound", "Unknown type"}
             /\ heap' = heap]_vars

(***************************************************************************)
(* C13.  A list with non-zero length whose declared element kind is list,  *)
(* byte-array or int-array makes Decode return an unsupported-element-kind *)
(* error to the caller: the process does not crash, and nothing is decoded *)
(* from the bytes behind the header of the list.                           *)
(***************************************************************************)
\* The next member is a list with a whole header, an element kind of list,
\* byte-array or int-array and a positive length.
UnsupportedListNext ==
    /\ pc = "read_compound"
    /\ Avail(pos, 1)
    /\ input[pos + 1] = TagList
    /\ WholeStringAt(pos + 1)
    /\ ShortPrefix(pos + 1)
    /\ Avail(BehindString(pos + 1), 5)
    /\ input[BehindString(pos + 1) + 1] \in {TagList, TagByteArray, TagIntArray}
    /\ BESigned(Fetch(CountAt, 4)) > 0

C13_UnsupportedListIsError ==
    [][UnsupportedListNext
          => /\ pc' = "returned"
             /\ ret'.err \notin {"nil", "ErrNotCompound"}
             /\ pos' = CountAt + 4
             /\ heap' = heap]_vars

(***************************************************************************)
(* C14.  A member decoded from a fixed-width scalar kind (signed 8, 16, 32 *)
(* or 64-bit integer, 32 or 64-bit float) is stored with the variant of    *)
(* that kind: the typed getter of the same kind (Byte, Short, Int, Long,   *)
(* Float, Double), called with the name of the member, passes its run-time *)
(* type check and returns the encoded value.                               *)
(***************************************************************************)
\* The names on the parent chain of container c, outermost first.
RECURSIVE PathTo(_, _)
PathTo(h, c) ==
    IF h[c].parent = Nil THEN <<>> ELSE Append(PathTo(h, h[c].parent), h[c].name)

\* The container the parent chain of c ends in.
RECURSIVE ChainRoot(_, _)
ChainRoot(h, c) == IF h[c].parent = Nil THEN c ELSE ChainRoot(h, h[c].parent)

\* The members of doc that the getter call addressed: scalar members of
\* the kind of the getter, in the container the getter was called on.
GotEntries ==
    {e \in Expected(doc) :
        /\ e[1] = Append(PathTo(heap, got.c), got.name)
        /\ e[2] = got.kind}

C14_ScalarGetterReturns ==
    (/\ Whole /\ ValidDoc /\ SupportedDoc
     /\ got.kind \in ScalarTags
     /\ ChainRoot(heap, got.c) = 1
     /\ GotEntries # {})
        => /\ ~got.panic
           /\ \E e \in GotEntries : got.v = e[3]

(***************************************************************************)
(* C15.  When the input given to DecodeGzip is not a valid compression     *)
(* envelope, DecodeGzip returns the error of the decompressor with a nil   *)
(* tree: it does not crash and decodes no byte.                            *)
(***************************************************************************)
C15_BadEnvelopeIsError ==
    (gz.called /\ ~HeaderOK(gz.src) /\ pc # "DecodeGzip")
        => /\ pc = "returned"
           /\ ret.c = Nil
           /\ ret.err \notin {"nil", "ErrNotCompound", "Unknown type"}
           /\ pos = 0
           /\ heap = <<>>

\* A valid envelope is opened and its content decoded.
GzipDecodes ==
    (gz.called /\ gz.src = Gzip(Encode(doc)) /\ ValidDoc /\ SupportedDoc /\ Done)
        => /\ pc = "returned"
           /\ ret.err = "nil"
           /\ Decoded = Expected(doc)

(***************************************************************************)
(* C16.  In any sequence of member tags, every member read between the     *)
(* opening tag of a nested container and its matching terminator is        *)
(* inserted into that nested container, and every member read after that   *)
(* terminator into the container that was current when the nested one was  *)
(* opened (its direct parent); Decode returns only at the terminator that  *)
(* matches the root.                                                       *)
(***************************************************************************)
\* The path of the container that call j of read_compound was made for,
\* and of the container that is current in it: a call made by read_list is
\* for the next element of the list its caller is reading.
RECURSIVE FramePath(_)
FramePath(j) ==
    IF j = 1 THEN <<>>
    ELSE LET caller == frames[j - 1]
         IN  FramePath(j - 1) \o PathTo(heap, caller.current)
                 \o <<caller.list.name, Elem(Len(caller.list.data) + 1)>>

CurrentPath(j) == FramePath(j) \o PathTo(heap, frames[j].current)

\* The members inserted so far, with the paths of their containers: those
\* of every active call, and those of the elements already read of the
\* lists being read.
InFlight ==
    UNION {Entries(heap, frames[j].root, FramePath(j)) : j \in 1..Len(frames)}
    \cup UNION {UNION {Entries(heap, frames[j].list.data[i],
                               CurrentPath(j) \o <<frames[j].list.name, Elem(i)>>) :
                          i \in 1..Len(frames[j].list.data)} :
                   j \in 1..Len(frames)}

\* The container that is open behind the first i tokens of doc.
OpenPath(i) ==
    LET st == Walk(SubSeq(doc.members, 1, i), 1, WalkStart).stack
    IN  st[Len(st)].path

\* The cursor stands behind the first i tokens of doc.
BehindToken(i) ==
    pos = Len(EncRoot(doc.name)) + Len(EncToks(SubSeq(doc.members, 1, i)))

\* Every member is inserted into the container that is open in the document
\* where the member stands, and the current container is the open one.
NestingFollowsDocument ==
    (Whole /\ ValidDoc /\ SupportedDoc /\ pc = "read_compound")
        => /\ InFlight \subseteq Expected(doc)
           /\ \A i \in 0..Len(doc.members) :
                 BehindToken(i) => CurrentPath(Len(frames)) = OpenPath(i)

\* The input is a sequence of whole member tags: a whole document, or one
\* that ends at a tag boundary.
WholeTags == Whole \/ AtTagBoundary

C16_NestingAndReturn ==
    /\ NestingFollowsDocument
    /\ (WholeTags /\ ValidDoc /\ SupportedDoc /\ pc = "returned" /\ ret.err = "nil")
          => /\ pos >= 1
             /\ input[pos] = TagEnd
             /\ heap[1].parent = Nil
             /\ Decoded = Expected(doc)

(***************************************************************************)
(* C17.  For a list of declared length n >= 0 with element kind container, *)
(* the decoder produces exactly n anonymous (empty-name) containers in     *)
(* stream order, each decoded with no enclosing parent, so that the        *)
(* terminator of an element ends that element only (also when the element  *)
(* holds nested containers); behind the n-th element the next tag is read  *)
(* as a member of the container that holds the list.                       *)
(***************************************************************************)
\* Value val is a list of containers.
IsContainerList(val) == val.gotype = "*List" /\ val.elemtype = "[]*Compound"

\* Every list of containers stored in a container has as many elements as
\* it declares, each without name and without parent.
ContainerListsExact ==
    \A c \in 1..Len(heap) : \A n \in DOMAIN heap[c].data :
        IsContainerList(heap[c].data[n])
            => /\ heap[c].data[n].list_type = TagCompound
               /\ heap[c].data[n].length >= 0
               /\ Len(heap[c].data[n].v) = heap[c].data[n].length
               /\ \A i \in 1..Len(heap[c].data[n].v) :
                     /\ heap[heap[c].data[n].v[i]].name = <<>>
                     /\ heap[heap[c].data[n].v[i]].parent = Nil

\* The same for the lists being read: the elements read so far are fewer
\* than declared, and the one being read is the root of its call.
ListsInFlightExact ==
    \A j \in 1..Len(frames) :
        /\ j < Len(frames) <=> frames[j].list.active
        /\ frames[j].list.active
              => /\ Len(frames[j].list.data) < frames[j].list.length
                 /\ heap[frames[j + 1].root].name = <<>>
                 /\ heap[frames[j + 1].root].parent = Nil
                 /\ ChainRoot(heap, frames[j + 1].current) = frames[j + 1].root

HasContainerList ==
    \E i \in 1..Len(doc.members) :
        \/ doc.members[i].t = "listc"
        \/ doc.members[i].t = "list" /\ doc.members[i].kind = TagCompound

C17_ContainerListElements ==
    /\ ContainerListsExact
    /\ ListsInFlightExact
    /\ (HasContainerList /\ Whole /\ ValidDoc /\ SupportedDoc)
          => /\ pc # "panicked"
             /\ pc = "read_compound"
                   => /\ InFlight \subseteq Expected(doc)
                      /\ \A i \in 0..Len(doc.members) :
                            BehindToken(i) => CurrentPath(Len(frames)) = OpenPath(i)
             /\ pc = "returned"
                   => (ret.err = "nil" /\ Decoded = Expected(doc))

\* A list of one container that holds a nested container was decoded, and
\* the member behind the list went into the root, which holds the list.
C17_Witness ==
    /\ pc = "returned"
    /\ ret.err = "nil"
    /\ Whole
    /\ DOMAIN heap[1].data = {NameA, NameB}
    /\ IsContainerList(heap[1].data[NameA])
    /\ heap[1].data[NameA].length = 1
    /\ heap[1].data[NameB].gotype = "string"
    /\ Len(heap) = 2

\* A list of two containers, the first of which holds a member.
ListOfTwoDecoded ==
    /\ pc = "returned"
    /\ ret.err = "nil"
    /\ Whole
    /\ \E n \in DOMAIN heap[1].data :
          /\ IsContainerList(heap[1].data[n])
          /\ heap[1].data[n].length = 2
          /\ DOMAIN heap[heap[1].data[n].v[1]].data # {}
          /\ DOMAIN heap[heap[1].data[n].v[2]].data = {}

\* An element that holds a nested container, closed by its own terminator.
ElementWithNestedDecoded ==
    /\ pc = "returned"
    /\ ret.err = "nil"
    /\ Whole
    /\ \E n \in DOMAIN heap[1].data :
          /\ IsContainerList(heap[1].data[n])
          /\ heap[1].data[n].length = 1
          /\ \E m \in DOMAIN heap[heap[1].data[n].v[1]].data :
                heap[heap[1].data[n].v[1]].data[m].gotype = "*Compound"

(***************************************************************************)
(* C18.  A list of declared length n whose element kind is text decodes to *)
(* exactly n strings, each read as a length-prefixed text value, in stream *)
(* order, and Strings() returns them.                                      *)
(***************************************************************************)
\* The text lists of n >= 1 strings that stand in the root of doc, as
\* <<name, strings>> (the empty list of any kind is the case of C8).
TextLists ==
    {<<doc.members[i].name, doc.members[i].val>> :
        i \in {j \in 1..Len(doc.members) :
                 /\ doc.members[j].t = "list"
                 /\ doc.members[j].kind = TagString
                 /\ doc.members[j].val # <<>>
                 /\ OpenPath(j - 1) = <<>>}}

\* List.Strings: self.data.([]string).
StringsReturns(val, strs) ==
    /\ val.gotype = "*List"
    /\ val.elemtype = "[]string"
    /\ val.list_type = TagString
    /\ val.length = Len(strs)
    /\ val.v = EncListElems(TagString, strs)

C18_TextListDecodes ==
    (Whole /\ ValidDoc /\ TextLists # {} /\ Done)
        => /\ pc = "returned"
           /\ ret.err = "nil"
           /\ \A l \in TextLists :
                 /\ l[1] \in DOMAIN heap[ret.c].data
                 /\ StringsReturns(heap[ret.c].data[l[1]], l[2])

(***************************************************************************)
(* C19.  In every state reached during decoding, following the parent      *)
(* back-reference from the current container reaches the root of that      *)
(* read_compound call after finitely many steps (no cycle); the number of  *)
(* steps equals the number of container-open tags not yet matched by a     *)
(* terminator; and every container on that chain other than the root is    *)
(* stored in the member mapping of its parent under its own name, and in   *)
(* no other container.                                                     *)
(***************************************************************************)
\* The number of parent steps from container c to the end of its chain.
RECURSIVE ChainLen(_, _)
ChainLen(h, c) == IF h[c].parent = Nil THEN 0 ELSE 1 + ChainLen(h, h[c].parent)

\* The containers from c up to, not including, the end of its chain.
RECURSIVE ChainBelowRoot(_, _)
ChainBelowRoot(h, c) ==
    IF h[c].parent = Nil THEN {} ELSE {c} \cup ChainBelowRoot(h, h[c].parent)

\* Container c is the value of member n of container p.
StoredAt(h, p, n, c) ==
    /\ n \in DOMAIN h[p].data
    /\ h[p].data[n].gotype = "*Compound"
    /\ h[p].data[n].v = <<c>>

\* Parents are older than their children (so no chain has a cycle), the
\* chain of the current container of every call ends in the root of the
\* call, and every container on it is a member of its parent alone.
ChainStructure ==
    /\ \A c \in 1..Len(heap) : heap[c].parent < c
    /\ \A j \in 1..Len(frames) :
          /\ ChainRoot(heap, frames[j].current) = frames[j].root
          /\ \A c \in ChainBelowRoot(heap, frames[j].current) :
                \A p \in 1..Len(heap) : \A n \in DOMAIN heap[p].data :
                    StoredAt(heap, p, n, c) <=> (p = heap[c].parent /\ n = heap[c].name)

\* The tokens of doc whose tag byte the decoder has read, with the
\* terminators that close the document read as terminator tokens.
TagsRead ==
    LET r == Len(EncRoot(doc.name))
        t == Len(EncToks(doc.members))
        begun == {i \in 1..Len(doc.members) :
                    r + Len(EncToks(SubSeq(doc.members, 1, i - 1))) < pos}
    IN  IF pos <= r + t
        THEN SubSeq(doc.members, 1, Cardinality(begun))
        ELSE doc.members \o [i \in 1..(pos - r - t) |-> EndTok]

\* The containers open behind those tags, innermost last, down to the
\* element of the innermost list being read or to the root.
OpenInCall ==
    LET st == Walk(TagsRead, 1, WalkStart).stack
        lists == {i \in 1..Len(st) : st[i].k = "l"}
        above == {i \in 1..Len(st) : \A l \in lists : l < i}
    IN  Cardinality(above)

\* The input is a prefix of the encoding of a document without unknown
\* tags or negative counts.
PrefixOfDocument ==
    /\ input = SubSeq(Encode(doc), 1, Len(input))
    /\ ~WalkDoc(doc).bad

C19_ParentChain ==
    /\ ChainStructure
    /\ (PrefixOfDocument /\ pc = "read_compound")
          => ChainLen(heap, Top.current) + 1 = OpenInCall

\* The same count while the input lasts.
ChainCountsOpenTags ==
    (PrefixOfDocument /\ pc = "read_compound" /\ pos < Len(input))
        => ChainLen(heap, Top.current) + 1 = OpenInCall

(***************************************************************************)
(* C20.  When two members of the same container carry the same name,       *)
(* decoding still succeeds, the member read last replaces the earlier one  *)
(* (whatever their kinds), and Len() of the container counts distinct      *)
(* member names rather than member tags read.                              *)
(***************************************************************************)
\* The names of the member tokens of doc that stand in the root.
RootNames ==
    {doc.members[i].name :
        i \in {j \in 1..Len(doc.members) :
                 doc.members[j].t # "end" /\ OpenPath(j - 1) = <<>>}}

\* doc has two members of one name in one container, and is of the format
\* otherwise.
DuplicateNames ==
    LET w == WalkDoc(doc)
    IN  /\ w.dup
        /\ ~w.bad
        /\ w.closedAt \in {0, Len(doc.members)}

C20_LastDuplicateWins ==
    (Done /\ Whole /\ DuplicateNames /\ SupportedDoc)
        => /\ pc = "returned"
           /\ ret.err = "nil"
           /\ Decoded = ExpectedLast(doc)
           /\ CompoundLen(heap, ret.c) = Cardinality(RootNames)

\* A byte "a" was replaced by a container "a" read after it; the root has
\* one member.
C20_Witness ==
    /\ pc = "returned"
    /\ ret.err = "nil"
    /\ Whole
    /\ Len(doc.members) >= 2
    /\ doc.members[1] = ScalarTok(TagByte)
    /\ doc.members[2] = OpenTok(NameA)
    /\ CompoundLen(heap, ret.c) = 1
    /\ heap[ret.c].data[NameA].gotype = "*Compound"

\* A container "a" holding a member was replaced by a byte "a".
ContainerReplacedByScalar ==
    /\ pc = "returned"
    /\ ret.err = "nil"
    /\ Whole
    /\ doc.members = <<OpenTok(NameA), EndTok, ScalarTok(TagByte)>>
    /\ heap[ret.c].data[NameA].gotype = "*int8"

====
